---- MODULE Spec2Model ----
(***************************************************************************)
(* A model of app.py, the Flask service behind the hospital chatbot:       *)
(* the module-level load of the FAISS index and the document chunks, the   *)
(* rate-limited POST /api/chat handler, retrieve_context and               *)
(* generate_answer.                                                        *)
(*                                                                         *)
(* Text is a sequence of tokens (one-string elements), so that joining,    *)
(* stripping and containment are computed and not assumed.  Python lists   *)
(* are 0-based in the source; sequences here are 1-based, and PyGet does   *)
(* the translation, negative indices included.                             *)
(***************************************************************************)
EXTENDS Integers, Sequences, FiniteSets, TLC

(* ----------------------------- bounds --------------------------------- *)

\* the largest number of chunks hospital_docs.json holds in the model
MaxDocs == 6

\* the requests that may be in flight at once (Flask serves threaded)
Requests == {"r1", "r2"}

(* ------------------------- program constants -------------------------- *)

\* retrieve_context(query, k=5)
K == 5

\* @limiter.limit("5 per minute")
RateLimit == 5

(* ------------------------------ text ---------------------------------- *)

Letters == <<"a", "b", "c">>

\* the i-th chunk of hospital_docs.json (1-based), two tokens, all distinct
Doc(i) == << Letters[((i - 1) % 3) + 1], Letters[(((i - 1) \div 3) % 3) + 1] >>

DocList(n) == [i \in 1..n |-> Doc(i)]

IsSpace(t) == t \in {" ", "\n"}

\* str.strip(): drop leading and trailing whitespace
RECURSIVE LStrip(_)
LStrip(s) == IF s # <<>> /\ IsSpace(Head(s)) THEN LStrip(Tail(s)) ELSE s

RECURSIVE RStrip(_)
RStrip(s) ==
    IF s # <<>> /\ IsSpace(s[Len(s)]) THEN RStrip(SubSeq(s, 1, Len(s) - 1)) ELSE s

Strip(s) == RStrip(LStrip(s))

\* sep.join(texts)
RECURSIVE Join(_, _)
Join(texts, sep) ==
    IF texts = <<>> THEN <<>>
    ELSE IF Len(texts) = 1 THEN texts[1]
    ELSE texts[1] \o sep \o Join(Tail(texts), sep)

(* ------------------------- embedder and index ------------------------- *)

RECURSIVE Count(_, _)
Count(s, t) ==
    IF s = <<>> THEN 0
    ELSE (IF Head(s) = t THEN 1 ELSE 0) + Count(Tail(s), t)

\* embedder.encode: a fixed map from a text to a vector
Encode(text) == << Count(text, "a"), Count(text, "b") >>

Dot(u, v) == u[1] * v[1] + u[2] * v[2]

\* the vectors hospital_index.faiss holds, one per chunk (the index file
\* is taken to be the one built from hospital_docs.json)
IndexOf(docs) == [i \in 1..Len(docs) |-> Encode(docs[i])]

\* index.search(query_emb, k): the k best ids (0-based) by inner product,
\* best first, the missing neighbours reported as -1
RECURSIVE TopK(_, _, _, _)
TopK(idx, qv, rest, k) ==
    IF k = 0 THEN <<>>
    ELSE IF rest = {} THEN <<-1>> \o TopK(idx, qv, rest, k - 1)
    ELSE LET best == CHOOSE i \in rest : \A j \in rest :
                        \/ Dot(idx[i + 1], qv) > Dot(idx[j + 1], qv)
                        \/ Dot(idx[i + 1], qv) = Dot(idx[j + 1], qv) /\ i <= j
         IN  <<best>> \o TopK(idx, qv, rest \ {best}, k - 1)

IndexSearch(idx, qv, k) == TopK(idx, qv, 0..(Len(idx) - 1), k)

\* documents[i] as Python evaluates it: a negative i counts from the end
PyInRange(docs, i) == (i >= 0 /\ i < Len(docs)) \/ (i < 0 /\ -i <= Len(docs))

PyGet(docs, i) == IF i >= 0 THEN docs[i + 1] ELSE docs[Len(docs) + i + 1]

(* ------------------------------ prompt -------------------------------- *)

OnlyLine == "Use ONLY the following context to answer."
IdkLine  == "If the answer is not present, reply exactly: \"I don't know\"."

PromptHead ==
    << "\n", "You are a question-answering system.", "\n", OnlyLine, "\n",
       IdkLine, "\n", "\n", "CONTEXT:", "\n" >>

PromptMid == << "\n", "\n", "QUESTION:", "\n" >>

PromptTail == << "\n", "\n", "ANSWER:", "\n" >>

\* a variant that joins the texts with nothing between them
ContextBlock_NoSep(context) == Join(context, <<>>)

\* { ' '.join(context) }
ContextBlock(context) == Join(context, <<" ">>)

\* a variant whose template leaves the context out
BuildPrompt_NoContext(context, query) ==
    PromptHead \o PromptMid \o query \o PromptTail

\* the f-string of generate_answer
BuildPrompt(context, query) ==
    PromptHead \o ContextBlock(context) \o PromptMid \o query \o PromptTail

(* ------------------------- requests and replies ----------------------- *)

\* a JSON value of the body's "question" field
StrVal(s) == [kind |-> "str", s |-> s]
NumZero   == [kind |-> "num", s |-> <<"0">>]

\* a variant that takes only the empty string for "no question"
Truthy_EmptyStringOnly(v) == v.kind # "str" \/ v.s # <<>>

\* Python truthiness, as `not question` evaluates it
Truthy(v) == IF v.kind = "str" THEN v.s # <<>> ELSE FALSE

\* request.json, a JSON object: the question field present or not
Bodies ==
    { [has |-> FALSE, q |-> StrVal(<<>>)],
      [has |-> TRUE,  q |-> StrVal(<<>>)],
      [has |-> TRUE,  q |-> NumZero],
      [has |-> TRUE,  q |-> StrVal(<<"a">>)],
      [has |-> TRUE,  q |-> StrVal(<<"b", " ", "c">>)] }

\* data.get('question', '')
GetQuestion(body) == IF body.has THEN body.q ELSE StrVal(<<>>)

\* what generate_content does when called: returns text, raises, or
\* returns a response whose .text is None
GenOutcomes == {"ok", "raise", "notext"}

GenText == << " ", "\n", "answer", " ", "text", "\n" >>

\* str(e) of the exceptions that can arise
EncodeErr == << "encode failed" >>
IndexErr  == << "list index out of range" >>
GenErr    == << "provider error" >>
NoneErr   == << "'NoneType' object has no attribute 'strip'" >>

NoReply == [status |-> 0, key |-> "none", body |-> <<>>]

Reply(status, key, body) == [status |-> status, key |-> key, body |-> body]

Idle ==
    [ pc |-> "idle", body |-> [has |-> FALSE, q |-> StrVal(<<>>)],
      embedOk |-> TRUE, gen |-> "ok", embedCalls |-> 0, genCalls |-> 0,
      indices |-> <<>>, context |-> <<>>, prompt |-> <<>>,
      ga |-> "none", resp |-> NoReply ]

(* ------------------------------ state --------------------------------- *)

VARIABLES
    proc,       \* "init", "serving" or "crashed"
    indexSrc,   \* hospital_index.faiss: "ok", "absent" or "malformed"
    documents,  \* the global documents
    index,      \* the global index (its vectors)
    loads,      \* how many times the corpus was loaded
    hits,       \* the limiter's count in the current one-minute window
    req         \* the requests in flight

vars == <<proc, indexSrc, documents, index, loads, hits, req>>

Init ==
    /\ proc = "init"
    /\ indexSrc \in {"ok", "absent", "malformed"}
    /\ documents = <<>>
    /\ index = <<>>
    /\ loads = 0
    /\ hits = 0
    /\ req = [r \in Requests |-> Idle]

\* a variant that reads the corpus again while serving
Load_Reloading ==
    /\ proc \in {"init", "serving"}
    /\ IF indexSrc = "ok"
       THEN \E n \in 0..MaxDocs :
               /\ documents' = DocList(n)
               /\ index' = IndexOf(DocList(n))
               /\ loads' = loads + 1
               /\ proc' = "serving"
       ELSE /\ proc' = "crashed"
            /\ UNCHANGED <<documents, index, loads>>
    /\ UNCHANGED <<indexSrc, hits, req>>

\* lines 29-36: the import of the module reads the index and the chunks;
\* faiss.read_index raises on an absent or unreadable file and nothing
\* catches it
Load ==
    /\ proc = "init"
    /\ IF indexSrc = "ok"
       THEN \E n \in 0..MaxDocs :
               /\ documents' = DocList(n)
               /\ index' = IndexOf(DocList(n))
               /\ loads' = loads + 1
               /\ proc' = "serving"
       ELSE /\ proc' = "crashed"
            /\ UNCHANGED <<documents, index, loads>>
    /\ UNCHANGED <<indexSrc, hits, req>>

\* the limiter's fixed window ends
WindowExpire ==
    /\ proc = "serving"
    /\ hits > 0
    /\ hits' = 0
    /\ UNCHANGED <<proc, indexSrc, documents, index, loads, req>>

\* POST /api/chat up to the call of generate_answer: the limiter (one
\* client address), then data.get and the `not question` test; print_usage
\* only prints and is left out
chat(r) ==
    /\ proc = "serving"
    /\ req[r].pc = "idle"
    /\ \E body \in Bodies, eok \in BOOLEAN, g \in GenOutcomes :
         LET in == [Idle EXCEPT !.body = body, !.embedOk = eok, !.gen = g] IN
         IF hits >= RateLimit
         THEN /\ req' = [req EXCEPT ![r] =
                    [in EXCEPT !.pc = "done", !.resp = Reply(429, "none", <<>>)]]
              /\ hits' = hits
         ELSE /\ hits' = hits + 1
              /\ IF ~Truthy(GetQuestion(body))
                 THEN req' = [req EXCEPT ![r] =
                         [in EXCEPT !.pc = "done",
                            !.resp = Reply(400, "error", <<"No question provided">>)]]
                 ELSE req' = [req EXCEPT ![r] = [in EXCEPT !.pc = "retrieve"]]
    /\ UNCHANGED <<proc, indexSrc, documents, index, loads>>

\* lines 39-42, called from line 53; an exception leaves generate_answer
\* and chat's except turns it into a 500 carrying str(e)
retrieve_context(r) ==
    /\ req[r].pc = "retrieve"
    /\ LET query == GetQuestion(req[r].body).s
           ind   == IndexSearch(index, Encode(query), K)
           cur   == [req[r] EXCEPT !.embedCalls = @ + 1]
       IN  IF ~req[r].embedOk
           THEN req' = [req EXCEPT ![r] =
                   [cur EXCEPT !.pc = "done", !.ga = "raised",
                               !.resp = Reply(500, "error", EncodeErr)]]
           ELSE IF \E j \in 1..K : ~PyInRange(documents, ind[j])
           THEN req' = [req EXCEPT ![r] =
                   [cur EXCEPT !.pc = "done", !.ga = "raised", !.indices = ind,
                               !.resp = Reply(500, "error", IndexErr)]]
           ELSE req' = [req EXCEPT ![r] =
                   [cur EXCEPT !.pc = "generate", !.indices = ind,
                               !.context = [j \in 1..K |-> PyGet(documents, ind[j])]]]
    /\ UNCHANGED <<proc, indexSrc, documents, index, loads, hits>>

\* a variant that calls the provider again after a failed call
generate_answer_Retry(r) ==
    /\ req[r].pc = "generate"
    /\ LET query == GetQuestion(req[r].body).s
           cur   == [req[r] EXCEPT !.genCalls = @ + 1,
                                   !.prompt = BuildPrompt(req[r].context, query)]
       IN  req' = [req EXCEPT ![r] =
              IF req[r].gen = "ok"
              THEN [cur EXCEPT !.pc = "done", !.ga = "returned",
                               !.resp = Reply(200, "answer", Strip(GenText))]
              ELSE cur]
    /\ UNCHANGED <<proc, indexSrc, documents, index, loads, hits>>

\* lines 55-74 and chat's try/except around them
generate_answer(r) ==
    /\ req[r].pc = "generate"
    /\ LET query == GetQuestion(req[r].body).s
           cur   == [req[r] EXCEPT !.genCalls = @ + 1,
                                   !.prompt = BuildPrompt(req[r].context, query),
                                   !.pc = "done"]
       IN  req' = [req EXCEPT ![r] =
              CASE req[r].gen = "ok" ->
                     [cur EXCEPT !.ga = "returned",
                                 !.resp = Reply(200, "answer", Strip(GenText))]
                [] req[r].gen = "raise" ->
                     [cur EXCEPT !.ga = "raised",
                                 !.resp = Reply(500, "error", GenErr)]
                [] OTHER ->
                     [cur EXCEPT !.ga = "raised",
                                 !.resp = Reply(500, "error", NoneErr)]]
    /\ UNCHANGED <<proc, indexSrc, documents, index, loads, hits>>

\* the response is sent and the worker is free again
Finish(r) ==
    /\ req[r].pc = "done"
    /\ req' = [req EXCEPT ![r] = Idle]
    /\ UNCHANGED <<proc, indexSrc, documents, index, loads, hits>>

Next ==
    \/ Load
    \/ WindowExpire
    \/ \E r \in Requests : chat(r)
    \/ \E r \in Requests : retrieve_context(r)
    \/ \E r \in Requests : generate_answer(r)
    \/ \E r \in Requests : Finish(r)

Spec == Init /\ [][Next]_vars

(* ------------------------------ claims -------------------------------- *)

Query(r) == GetQuestion(req[r].body).s

\* t occurs in s as a contiguous run
Contains(s, t) ==
    \E i \in 0..(Len(s) - Len(t)) : SubSeq(s, i + 1, i + Len(t)) = t

\* the apology 4.2 of the specification prescribes for a failed generation
Apology == << "I'm having trouble processing your request. Please try again." >>

\* C1: a request with a non-empty question whose generation call fails is
\* answered with the fixed apology; the exception does not leave
\* generate_answer and its text is not in the reply.
C1_ProviderFailureGivesApology ==
    \A r \in Requests :
        (req[r].pc = "done" /\ req[r].genCalls >= 1 /\ req[r].gen # "ok") =>
            /\ req[r].ga = "returned"
            /\ req[r].resp = Reply(200, "answer", Apology)
            /\ ~Contains(req[r].resp.body, GenErr)
            /\ ~Contains(req[r].resp.body, NoneErr)

\* A fact about C2's premise: whenever generate_answer reaches the provider
\* call, retrieval has handed it exactly K texts, so the empty list never
\* arises in the program.
ContextNeverEmpty ==
    \A r \in Requests : req[r].pc = "generate" => Len(req[r].context) = K

\* C3: a request whose query embedding fails still gets a result list and
\* an answer; the failure is not an error reply.
C3_EmbeddingFailureFallsBack ==
    \A r \in Requests :
        (req[r].pc = "done" /\ req[r].embedCalls >= 1 /\ ~req[r].embedOk) =>
            /\ req[r].ga # "raised"
            /\ req[r].resp.key # "error"
            /\ req[r].resp.status # 500

\* C4: retrieval returns at most K texts and at most as many as the corpus
\* holds, each from a valid corpus position, no position twice.
C4_RetrievalBounded ==
    \A r \in Requests :
        req[r].indices # <<>> =>
            /\ req[r].resp.body # IndexErr
            /\ Len(req[r].context) <= K
            /\ Len(req[r].context) <= Len(documents)
            /\ \A j \in 1..Len(req[r].context) :
                   /\ req[r].indices[j] \in 0..(Len(documents) - 1)
                   /\ req[r].context[j] = documents[req[r].indices[j] + 1]
            /\ \A i, j \in 1..Len(req[r].context) :
                   i # j => req[r].indices[i] # req[r].indices[j]

\* C5: the prompt handed to the provider holds the ONLY-the-context
\* instruction, the "I don't know" instruction, every retrieved text and
\* the query, unmodified.
C5_PromptContents ==
    \A r \in Requests :
        req[r].genCalls >= 1 =>
            /\ \E i \in 1..Len(req[r].prompt) : req[r].prompt[i] = OnlyLine
            /\ \E i \in 1..Len(req[r].prompt) : req[r].prompt[i] = IdkLine
            /\ \A j \in 1..Len(req[r].context) :
                   Contains(req[r].prompt, req[r].context[j])
            /\ Contains(req[r].prompt, PromptMid \o Query(r) \o PromptTail)

C5_Witness ==
    \E r \in Requests :
        /\ req[r].genCalls = 1
        /\ Query(r) = <<"b", " ", "c">>
        /\ Len(documents) >= K
        /\ Len(req[r].context) = K

\* where the j-th text starts in a block laid out with separator sep
RECURSIVE Offset(_, _, _)
Offset(texts, sep, j) ==
    IF j = 1 THEN 0
    ELSE Offset(texts, sep, j - 1) + Len(texts[j - 1]) + Len(sep)

\* in p, from position off on, the texts stand in order, sep between each
\* two, and PromptMid right after the last
LaidOut(p, off, texts, sep) ==
    /\ \A j \in 1..Len(texts) :
          LET a == off + Offset(texts, sep, j) IN
          /\ SubSeq(p, a + 1, a + Len(texts[j])) = texts[j]
          /\ j < Len(texts) =>
                SubSeq(p, a + Len(texts[j]) + 1,
                          a + Len(texts[j]) + Len(sep)) = sep
    /\ LET e == off + Offset(texts, sep, Len(texts)) + Len(texts[Len(texts)])
       IN  SubSeq(p, e + 1, e + Len(PromptMid)) = PromptMid

\* C6 as stated: two or more retrieved texts are put in the prompt in
\* retrieval order with a blank line between consecutive texts.
C6_BlankLineJoin ==
    \A r \in Requests :
        (req[r].genCalls >= 1 /\ Len(req[r].context) >= 2) =>
            LaidOut(req[r].prompt, Len(PromptHead), req[r].context, <<"\n", "\n">>)

\* C6 as amended: two or more retrieved texts are put in the prompt in
\* retrieval order with a single space between consecutive texts.
C6_SpaceJoin ==
    \A r \in Requests :
        (req[r].genCalls >= 1 /\ Len(req[r].context) >= 2) =>
            LaidOut(req[r].prompt, Len(PromptHead), req[r].context, <<" ">>)

C6_Witness ==
    \E r \in Requests :
        /\ req[r].genCalls = 1
        /\ Len(req[r].context) >= 2
        /\ req[r].context[1] # req[r].context[2]

\* C7: within one request the embedding step and the provider are each
\* called at most once (so a failed call is never repeated), and the
\* provider is called only after retrieval has completed.
C7_OneCallEachInOrder ==
    \A r \in Requests :
        /\ req[r].embedCalls <= 1
        /\ req[r].genCalls <= 1
        /\ req[r].genCalls >= 1 =>
              /\ req[r].embedCalls = 1
              /\ Len(req[r].indices) = K
              /\ Len(req[r].context) = K

C7_Witness ==
    \E r \in Requests :
        /\ req[r].pc = "done"
        /\ req[r].genCalls = 1
        /\ req[r].gen = "raise"
        /\ req[r].resp.status = 500

SameInputs(r1, r2) ==
    /\ req[r1].body = req[r2].body
    /\ req[r1].embedOk = req[r2].embedOk
    /\ req[r1].gen = req[r2].gen

\* once loaded, the corpus and the load count stay as they are
CorpusFrame ==
    proc = "serving" =>
        (documents' = documents /\ index' = index /\ loads' = loads)

\* C8 as stated: the corpus is loaded once and never modified, and the
\* outcome of a request depends on no earlier request: two requests with
\* the same body and the same provider behaviour get the same reply.
C8_LoadedOnceStateless ==
    /\ [](loads <= 1 /\ (proc = "serving" => loads = 1))
    /\ [][CorpusFrame]_vars
    /\ [](\A r1, r2 \in Requests :
            (req[r1].pc = "done" /\ req[r2].pc = "done" /\ SameInputs(r1, r2))
                => req[r1].resp = req[r2].resp)

\* C8 as amended: the corpus is loaded once and never modified, and two
\* requests the rate limiter admits, with the same body and the same
\* provider behaviour, get the same reply.
C8_LoadedOnceStatelessAdmitted ==
    /\ [](loads <= 1 /\ (proc = "serving" => loads = 1))
    /\ [][CorpusFrame]_vars
    /\ [](\A r1, r2 \in Requests :
            (/\ req[r1].pc = "done" /\ req[r2].pc = "done"
             /\ SameInputs(r1, r2)
             /\ req[r1].resp.status # 429 /\ req[r2].resp.status # 429)
                => req[r1].resp = req[r2].resp)

C8_Witness ==
    \E r1, r2 \in Requests :
        /\ r1 # r2
        /\ req[r1].pc = "done" /\ req[r2].pc = "done"
        /\ SameInputs(r1, r2)
        /\ req[r1].resp.status = 200 /\ req[r2].resp.status = 200
        /\ loads = 1
        /\ hits = RateLimit

\* C9: with the index file absent or unreadable the process still starts
\* and serves.
C9_StartsWithoutIndex ==
    (proc # "init" /\ indexSrc # "ok") => proc = "serving"

EmptyOrMissing(body) == ~body.has \/ body.q = StrVal(<<>>)

Falsy(body) == EmptyOrMissing(body) \/ body.q = NumZero

ProperReply(r) ==
    \/ req[r].resp.status = 200 /\ req[r].resp.key = "answer"
    \/ req[r].resp.status = 500 /\ req[r].resp.key = "error"

\* C10 as stated: a POST with a missing or empty question gets 400 with an
\* error field and no embedding or provider call; any other gets 200 with
\* an answer or 500 with an error, and an exception raised in
\* generate_answer ends as the 500.
C10_ChatReplies ==
    \A r \in Requests :
        req[r].pc = "done" =>
            IF EmptyOrMissing(req[r].body)
            THEN /\ req[r].resp.status = 400 /\ req[r].resp.key = "error"
                 /\ req[r].embedCalls = 0 /\ req[r].genCalls = 0
            ELSE /\ ProperReply(r)
                 /\ req[r].ga = "raised" => req[r].resp.status = 500

\* C10 as amended: a POST the rate limiter admits gets 400 with an error
\* field and no embedding or provider call when its question is missing or
\* falsy (the empty string, 0); any other admitted POST gets 200 with an
\* answer or 500 with an error, and an exception raised in generate_answer
\* ends as the 500.
C10_AdmittedChatReplies ==
    \A r \in Requests :
        (req[r].pc = "done" /\ req[r].resp.status # 429) =>
            IF Falsy(req[r].body)
            THEN /\ req[r].resp.status = 400 /\ req[r].resp.key = "error"
                 /\ req[r].embedCalls = 0 /\ req[r].genCalls = 0
            ELSE /\ ProperReply(r)
                 /\ req[r].ga = "raised" => req[r].resp.status = 500

C10_Witness ==
    \E r1, r2 \in Requests :
        /\ req[r1].pc = "done" /\ req[r1].body.q = NumZero
        /\ req[r1].resp.status = 400
        /\ req[r2].pc = "done" /\ req[r2].ga = "raised"
        /\ req[r2].resp.status = 500

====
